---------------------------- MODULE Spec2Model ----------------------------
(***************************************************************************)
(* A model of the LocalSend plugin's two engines:                          *)
(*   - the transfer engine (transfer.ts: prepareUpload, uploadFile,        *)
(*     sendFiles), one action per stretch of code between two awaits;      *)
(*   - the discovery engine (discovery.ts: registerWithDevice,             *)
(*     scanNetwork), one action per event-loop task.                       *)
(* Each engine has its own specification; the variables of the other       *)
(* engine stay at their initial values. Two further specifications follow  *)
(* scanNetwork with its probes counted over whole subnets, and two calls   *)
(* of scanNetwork that overlap in time; a last one follows the plugin's    *)
(* send action (index.ts: createSendAction) around sendFiles, and the      *)
(* discovery action (createDiscoveryAction) around a scan.                 *)
(***************************************************************************)
EXTENDS Integers, Sequences, FiniteSets, TLC

(***************************************************************************)
(* Bounds of the model.                                                    *)
(***************************************************************************)
\* Longest file list handed to sendFiles.
MaxFiles == 2

\* JavaScript's undefined (an absent property).
NoValue == "<undefined>"

\* All sequences over S of length at most n.
SeqsUpTo(S, n) == UNION { [1..k -> S] : k \in 0..n }

\* The elements of a sequence.
Range(s) == { s[i] : i \in DOMAIN s }

(***************************************************************************)
(*                          THE TRANSFER ENGINE                            *)
(***************************************************************************)

\* File paths, as their components; the last one is the base name.
Paths == { <<"docs", "a.txt">>, <<"pics", "b.png">> }

\* path.basename(filePath)
BaseName(p) == p[Len(p)]

\* An Error: the fixed part of its message, the status code and the text
\* interpolated into it (code -1 and <<>> when the message has none).
Err(m, c, a) == [message |-> m, code |-> c, arg |-> a]
NoError == Err("", -1, <<>>)

\* What the file system answers when a path is cataloged.
FsStates == {"ok", "missing", "unreadable"}

\* Status codes of a response; 0 is makeRequest's `res.statusCode || 0`.
PrepareStatuses == {0, 200, 204, 400, 401, 403, 404, 409, 429, 500, 503}
UploadStatuses == {200, 204, 403, 500}
UploadBodies == {"", "busy"}

\* A request that ends without a response: makeRequest rejects.
NetFailures == {"socket error", "Request timeout"}

\* How a request ended: makeRequest's { statusCode, body }, or its rejection.
Response(statusCode, body) == [statusCode |-> statusCode, body |-> body]
NoResponse(failure) == [statusCode |-> -1, body |-> failure]

\* A token as the receiver's JSON gives it for one file id.
TokenValues == {NoValue, "", "tok"}

\* The body of a prepare-upload response for n files, as JSON.parse sees it:
\* text that is no JSON, the JSON null, or an object whose sessionId and files
\* properties may be absent.
PrepareBodies(n) ==
    { [json |-> "garbage", sessionId |-> NoValue, hasFiles |-> FALSE,
       files |-> [i \in 1..n |-> NoValue]],
      [json |-> "null", sessionId |-> NoValue, hasFiles |-> FALSE,
       files |-> [i \in 1..n |-> NoValue]] }
    \cup
    { [json |-> "object", sessionId |-> s, hasFiles |-> FALSE,
       files |-> [i \in 1..n |-> NoValue]] : s \in {NoValue, "", "sid"} }
    \cup
    { [json |-> "object", sessionId |-> s, hasFiles |-> TRUE, files |-> f] :
        s \in {NoValue, "", "sid"}, f \in [1..n -> TokenValues] }

\* JavaScript truthiness of a string-or-undefined value.
Truthy(v) == v # NoValue /\ v # ""

VARIABLES
    filePaths,   \* sendFiles' argument: the paths to send
    onProgress,  \* whether sendFiles was given a progress callback
    tpc,         \* where sendFiles is: idle, catalog, prepare, upload, done, failed
    fileInfos,   \* the FileInfo of every path cataloged so far
    session,     \* the TransferSession prepareUpload returned
    cur,         \* position of the upload loop in fileInfos
    completed,   \* sendFiles' counter of uploaded files
    requests,    \* every request sent to the device, in order
    responses,   \* how each request ended: the status and body received
    progress,    \* every call of the progress callback, in order
    terror       \* the Error sendFiles rejected with

tvars == <<filePaths, onProgress, tpc, fileInfos, session, cur, completed,
           requests, responses, progress, terror>>

VARIABLES
    interfaces,  \* os.networkInterfaces(): the addresses of the host
    dpc,         \* where scanNetwork is: idle, log, scanning, returned, threw
    promises,    \* the probes launched, in order, and how each has settled
    devices,     \* scanNetwork's array of devices, the one it returns
    timerFired   \* the deadline's setTimeout has fired

dvars == <<interfaces, dpc, promises, devices, timerFired>>

VARIABLES
    hostIPs,     \* getLocalIPs(), in the scan counted probe by probe
    cpc,         \* where that scan is: idle, scanning, returned
    launched,    \* the number of probes it launched
    pending,     \* the number of its probes that have not settled
    found        \* the length of its array of devices

cvars == <<hostIPs, cpc, launched, pending, found>>

VARIABLES
    scans        \* two calls of scanNetwork at once: for each its position,
                 \* its promises, its array of devices and its timer

svars == <<scans>>

VARIABLES
    apc,         \* where the send action is: idle, preparing, sending,
                 \* succeeded, failed
    result,      \* the result the action updates: title, subtitle, actions
    shown,       \* the progress calls whose update of the result has ended
    errorCalls   \* the calls of the error callback handed to sendFiles

avars == <<apc, result, shown, errorCalls>>

VARIABLES
    gpc,         \* where the discovery action is: idle, toScanning, logging,
                 \* finding, fetching, translating, failing, done
    updatable,   \* whether updateResultWithDevices got the result to update
    firstDevice, \* the device updateResultWithDevices shows: devices[0]
    lost         \* the host did not give the result to update, at some update

gvars == <<gpc, updatable, firstDevice, lost>>

vars == <<tvars, dvars, cvars, svars, avars, gvars>>

NoSession == [json |-> "none", sessionId |-> NoValue, hasFiles |-> FALSE, files |-> <<>>]

\* No scan is running and none will: the discovery engine is left alone.
DiscoveryIdle ==
    /\ interfaces = <<>> /\ dpc = "off" /\ promises = <<>> /\ devices = <<>>
    /\ timerFired = FALSE

CountIdle ==
    /\ hostIPs = <<>> /\ cpc = "off" /\ launched = 0 /\ pending = 0 /\ found = 0

OverlapIdle == scans = <<>>

\* No send action runs.
NoResult == [title |-> "", subTitle |-> "", actions |-> {}]
ActionIdle == apc = "off" /\ result = NoResult /\ shown = {} /\ errorCalls = 0

\* No discovery action runs.
NoDevice == [alias |-> NoValue, protocol |-> NoValue, port |-> 0, ip |-> <<>>]
DiscoveryActionIdle ==
    gpc = "off" /\ updatable = FALSE /\ firstDevice = NoDevice /\ lost = FALSE

InitTransfer ==
    /\ DiscoveryIdle /\ CountIdle /\ OverlapIdle /\ ActionIdle /\ DiscoveryActionIdle
    /\ filePaths \in SeqsUpTo(Paths, MaxFiles)
    /\ onProgress \in BOOLEAN
    /\ tpc = "idle"
    /\ fileInfos = <<>>
    /\ session = NoSession
    /\ cur = 0
    /\ completed = 0
    /\ requests = <<>>
    /\ responses = <<>>
    /\ progress = <<>>
    /\ terror = NoError

\* sendFiles throws: the promise it returned rejects with e.
Throw(e) == tpc' = "failed" /\ terror' = e

\* StatusMessage without its case 409: C4 must fail for it.
StatusMessageNoBusy(statusCode) ==
    CASE statusCode = 400 -> "Invalid request"
      [] statusCode = 401 -> "PIN required"
      [] statusCode = 403 -> "Request rejected by receiver"
      [] statusCode = 429 -> "Too many requests"
      [] statusCode = 500 -> "Receiver error"
      [] OTHER -> "Upload rejected"

\* The message prepareUpload fails with for a status that is not 200 or 204.
StatusMessage(statusCode) ==
    CASE statusCode = 400 -> "Invalid request"
      [] statusCode = 401 -> "PIN required"
      [] statusCode = 403 -> "Request rejected by receiver"
      [] statusCode = 409 -> "Receiver is busy with another transfer"
      [] statusCode = 429 -> "Too many requests"
      [] statusCode = 500 -> "Receiver error"
      [] OTHER -> "Upload rejected"

\* prepareUpload without its branch for 204, which then parses the body like
\* a 200: C3 must fail for it.
PrepareUploadNo204(statusCode, body) ==
    IF statusCode \notin {200, 204}
    THEN [threw |-> TRUE, error |-> Err(StatusMessage(statusCode), -1, <<>>),
          value |-> NoSession]
    ELSE IF body.json = "garbage"
    THEN [threw |-> TRUE, error |-> Err("SyntaxError", -1, <<>>), value |-> NoSession]
    ELSE [threw |-> FALSE, error |-> NoError, value |-> body]

\* prepareUpload from its response on: the session it returns, or the Error
\* it throws.
PrepareUpload(statusCode, body) ==
    IF statusCode = 204
    THEN [threw |-> FALSE, error |-> NoError,
          value |-> [json |-> "object", sessionId |-> "", hasFiles |-> TRUE,
                     files |-> [i \in DOMAIN body.files |-> NoValue]]]
    ELSE IF statusCode # 200
    THEN [threw |-> TRUE, error |-> Err(StatusMessage(statusCode), -1, <<>>),
          value |-> NoSession]
    ELSE IF body.json = "garbage"
    THEN [threw |-> TRUE, error |-> Err("SyntaxError", -1, <<>>), value |-> NoSession]
    ELSE [threw |-> FALSE, error |-> NoError, value |-> body]

\* A progress call that counts the file about to be sent as sent: C19 must
\* fail for it.
ReportOneBased(currentIndex, fileName) ==
    progress' = IF onProgress
                THEN Append(progress, [currentIndex |-> currentIndex + 1,
                                       totalCount |-> Len(fileInfos),
                                       fileName |-> fileName])
                ELSE progress

\* The progress callback is called, when there is one.
Report(currentIndex, fileName) ==
    progress' = IF onProgress
                THEN Append(progress, [currentIndex |-> currentIndex,
                                       totalCount |-> Len(fileInfos),
                                       fileName |-> fileName])
                ELSE progress

\* The request sendFiles opens with: POST /api/localsend/v2/prepare-upload.
PrepareRequest == [path |-> "prepare-upload", fileId |-> 0, token |-> NoValue]

\* POST /api/localsend/v2/upload?sessionId=&fileId=&token=
UploadRequest(fileId, token) == [path |-> "upload", fileId |-> fileId, token |-> token]

\* cancelTransfer's request: POST /api/localsend/v2/cancel?sessionId=.
\* Neither sendFiles nor the plugin calls cancelTransfer.
CancelRequest == [path |-> "cancel", fileId |-> 0, token |-> NoValue]

\* An uploadFile that cancels the session when a token is missing: C15 must
\* fail for it.
UploadFileCancelling(sess, info, readable) ==
    IF ~sess.hasFiles
    THEN Throw(Err("TypeError", -1, <<>>)) /\ UNCHANGED requests
    ELSE IF ~Truthy(sess.files[info.id])
    THEN /\ Throw(Err("No token for file: ", -1, <<info.fileName>>))
         /\ requests' = Append(requests, CancelRequest)
    ELSE IF ~readable
    THEN Throw(Err("read failed", -1, filePaths[info.id])) /\ UNCHANGED requests
    ELSE /\ requests' = Append(requests, UploadRequest(info.id, sess.files[info.id]))
         /\ tpc' = "upload"
         /\ UNCHANGED terror

\* An uploadFile that sends its request a second time without waiting for
\* the response to the first: C14 must fail for it.
UploadFileResending(sess, info, readable) ==
    IF ~sess.hasFiles
    THEN Throw(Err("TypeError", -1, <<>>)) /\ UNCHANGED requests
    ELSE IF ~Truthy(sess.files[info.id])
    THEN Throw(Err("No token for file: ", -1, <<info.fileName>>)) /\ UNCHANGED requests
    ELSE IF ~readable
    THEN Throw(Err("read failed", -1, filePaths[info.id])) /\ UNCHANGED requests
    ELSE /\ requests' = requests \o <<UploadRequest(info.id, sess.files[info.id]),
                                      UploadRequest(info.id, sess.files[info.id])>>
         /\ tpc' = "upload"
         /\ UNCHANGED terror

\* uploadFile without the token check: C2 must fail for it.
UploadFileNoTokenCheck(sess, info, readable) ==
    IF ~sess.hasFiles
    THEN Throw(Err("TypeError", -1, <<>>)) /\ UNCHANGED requests
    ELSE IF ~readable
    THEN Throw(Err("read failed", -1, filePaths[info.id])) /\ UNCHANGED requests
    ELSE /\ requests' = Append(requests, UploadRequest(info.id, sess.files[info.id]))
         /\ tpc' = "upload"
         /\ UNCHANGED terror

\* uploadFile up to its await: the token lookup, the read of the file and
\* the request.
UploadFile(sess, info, readable) ==
    IF ~sess.hasFiles
    THEN Throw(Err("TypeError", -1, <<>>)) /\ UNCHANGED requests
    ELSE IF ~Truthy(sess.files[info.id])
    THEN Throw(Err("No token for file: ", -1, <<info.fileName>>)) /\ UNCHANGED requests
    ELSE IF ~readable
    THEN Throw(Err("read failed", -1, filePaths[info.id])) /\ UNCHANGED requests
    ELSE /\ requests' = Append(requests, UploadRequest(info.id, sess.files[info.id]))
         /\ tpc' = "upload"
         /\ UNCHANGED terror

\* The upload loop without the final progress call: C1 must fail for it.
UploadLoopNoFinal(k, sess) ==
    /\ cur' = k
    /\ IF k <= Len(fileInfos)
       THEN /\ Report(completed', fileInfos[k].fileName)
            /\ \E readable \in BOOLEAN : UploadFile(sess, fileInfos[k], readable)
       ELSE /\ UNCHANGED progress
            /\ tpc' = "done"
            /\ UNCHANGED <<requests, terror>>

\* The upload loop from file k on, up to the next await: the progress call
\* and uploadFile for file k, or after the last file the final progress call.
UploadLoop(k, sess) ==
    /\ cur' = k
    /\ IF k <= Len(fileInfos)
       THEN /\ Report(completed', fileInfos[k].fileName)
            /\ \E readable \in BOOLEAN : UploadFile(sess, fileInfos[k], readable)
       ELSE /\ Report(Len(fileInfos), "")
            /\ tpc' = "done"
            /\ UNCHANGED <<requests, terror>>

\* A sendFiles that sends the prepare-upload request before it catalogs the
\* files: C12 must fail for it.
SendFilesPrepareFirst ==
    /\ tpc = "idle"
    /\ IF Len(filePaths) = 0
       THEN tpc' = "prepare" /\ requests' = <<PrepareRequest>>
       ELSE tpc' = "catalog" /\ requests' = <<PrepareRequest>>
    /\ UNCHANGED <<filePaths, onProgress, fileInfos, session, cur, completed,
                   responses, progress, terror>>
    /\ UNCHANGED <<dvars, cvars, svars, avars, gvars>>

\* sendFiles is called: the catalog loop starts, or with no file the
\* prepare-upload request goes out at once.
SendFiles ==
    /\ tpc = "idle"
    /\ IF Len(filePaths) = 0
       THEN tpc' = "prepare" /\ requests' = <<PrepareRequest>>
       ELSE tpc' = "catalog" /\ UNCHANGED requests
    /\ UNCHANGED <<filePaths, onProgress, fileInfos, session, cur, completed,
                   responses, progress, terror>>
    /\ UNCHANGED <<dvars, cvars, svars, avars, gvars>>

\* One turn of the catalog loop: existsSync, createFileInfo; after the last
\* path prepareUpload sends its request.
CatalogFile ==
    /\ tpc = "catalog"
    /\ LET k == Len(fileInfos) + 1
           p == filePaths[k]
       IN \E fs \in FsStates :
            CASE fs = "missing" ->
                   /\ Throw(Err("File not found: ", -1, p))
                   /\ UNCHANGED <<fileInfos, requests>>
              [] fs = "unreadable" ->
                   /\ Throw(Err("stat or read failed", -1, p))
                   /\ UNCHANGED <<fileInfos, requests>>
              [] fs = "ok" ->
                   /\ fileInfos' = Append(fileInfos, [id |-> k, fileName |-> BaseName(p)])
                   /\ IF k = Len(filePaths)
                      THEN tpc' = "prepare" /\ requests' = Append(requests, PrepareRequest)
                      ELSE UNCHANGED <<tpc, requests>>
                   /\ UNCHANGED terror
    /\ UNCHANGED <<filePaths, onProgress, session, cur, completed, responses,
                   progress>>
    /\ UNCHANGED <<dvars, cvars, svars, avars, gvars>>

\* The prepare-upload request fails without a response.
PrepareFails ==
    /\ tpc = "prepare"
    /\ \E f \in NetFailures :
         /\ responses' = Append(responses, NoResponse(f))
         /\ Throw(Err(f, -1, <<>>))
    /\ UNCHANGED <<filePaths, onProgress, fileInfos, session, cur, completed,
                   requests, progress>>
    /\ UNCHANGED <<dvars, cvars, svars, avars, gvars>>

\* The prepare-upload response arrives: prepareUpload returns or throws, and
\* sendFiles goes on to the first upload.
PrepareResponds ==
    /\ tpc = "prepare"
    /\ \E statusCode \in PrepareStatuses, body \in PrepareBodies(Len(fileInfos)) :
         LET r == PrepareUpload(statusCode, body)
         IN /\ responses' = Append(responses, Response(statusCode, "json"))
            /\ IF r.threw
               THEN /\ Throw(r.error)
                    /\ UNCHANGED <<session, cur, completed, requests, progress>>
               ELSE /\ session' = r.value
                    /\ UNCHANGED completed
                    /\ IF r.value.json = "null"
                       THEN /\ Throw(Err("TypeError", -1, <<>>))
                            /\ UNCHANGED <<cur, requests, progress>>
                       ELSE IF ~Truthy(r.value.sessionId)
                       THEN /\ tpc' = "done"
                            /\ UNCHANGED <<cur, requests, progress, terror>>
                       ELSE UploadLoop(1, r.value)
    /\ UNCHANGED <<filePaths, onProgress, fileInfos>>
    /\ UNCHANGED <<dvars, cvars, svars, avars, gvars>>

\* The upload request of the current file fails without a response.
UploadFails ==
    /\ tpc = "upload"
    /\ \E f \in NetFailures :
         /\ responses' = Append(responses, NoResponse(f))
         /\ Throw(Err(f, -1, <<>>))
    /\ UNCHANGED <<filePaths, onProgress, fileInfos, session, cur, completed,
                   requests, progress>>
    /\ UNCHANGED <<dvars, cvars, svars, avars, gvars>>

\* A success test that lets every status below 500 pass: C5 must fail for it.
UploadOkBelow500(statusCode) == statusCode < 500

\* Whether uploadFile takes a response status for success.
UploadOk(statusCode) == statusCode = 200 \/ statusCode = 204

\* The response to the upload of the current file arrives: uploadFile returns
\* or throws, and the loop goes on to the next file.
UploadResponds ==
    /\ tpc = "upload"
    /\ \E statusCode \in UploadStatuses, body \in UploadBodies :
         /\ responses' = Append(responses, Response(statusCode, body))
         /\ IF ~UploadOk(statusCode)
            THEN /\ Throw(Err("Upload failed with status ", statusCode, <<body>>))
                 /\ UNCHANGED <<cur, completed, requests, progress>>
            ELSE /\ completed' = completed + 1
                 /\ UploadLoop(cur + 1, session)
    /\ UNCHANGED <<filePaths, onProgress, fileInfos, session>>
    /\ UNCHANGED <<dvars, cvars, svars, avars, gvars>>

NextTransfer ==
    \/ SendFiles
    \/ CatalogFile
    \/ PrepareFails
    \/ PrepareResponds
    \/ UploadFails
    \/ UploadResponds

SpecTransfer == InitTransfer /\ [][NextTransfer]_vars

(***************************************************************************)
(*                     CLAIMS ABOUT THE TRANSFER ENGINE                    *)
(***************************************************************************)

\* sendFiles has returned or thrown.
TransferEnded == tpc \in {"done", "failed"}

\* The upload requests sent so far, and the file ids they carry, in order.
UploadRequests == SelectSeq(requests, LAMBDA r : r.path = "upload")
UploadIds == [i \in 1..Len(UploadRequests) |-> UploadRequests[i].fileId]

\* The responses to the upload requests (the first request of a transfer is
\* the prepare-upload request).
UploadResponses == IF responses = <<>> THEN <<>> ELSE Tail(responses)

\* Negotiation returned a session with a non-empty sessionId and a token map.
SessionOpen == session.json = "object" /\ Truthy(session.sessionId) /\ session.hasFiles

\* ... and the map holds a token for every file.
SessionComplete ==
    SessionOpen /\ \A i \in 1..Len(fileInfos) : Truthy(session.files[i])

\* Every upload request sent was answered, with 200 or 204.
UploadsAllAnsweredOk ==
    /\ Len(UploadResponses) = Len(UploadRequests)
    /\ \A j \in 1..Len(UploadResponses) : UploadResponses[j].statusCode \in {200, 204}

\* What C1 promises: one upload request per file, in input order, and N+1
\* progress calls, the last with currentIndex N.
AllUploadedAndReported ==
    LET n == Len(filePaths)
    IN /\ UploadIds = [i \in 1..n |-> i]
       /\ onProgress => /\ Len(progress) = n + 1
                        /\ progress[n + 1].currentIndex = n

\* C1 as stated: with a session holding a token for every file and every
\* upload request answered 200 or 204, sendFiles sends exactly N upload
\* requests in input order and calls the progress callback N+1 times, the
\* last time with currentIndex N.
C1_AsStated ==
    (TransferEnded /\ SessionComplete /\ UploadsAllAnsweredOk)
        => AllUploadedAndReported

\* C1, amended: the same, provided also that no file fails to be read when
\* its upload starts (uploadFile reads the file before it sends the request).
C1_AllUploadedWhenReadable ==
    (TransferEnded /\ SessionComplete /\ UploadsAllAnsweredOk
        /\ terror.message # "read failed")
        => (AllUploadedAndReported /\ tpc = "done")

C1_Witness ==
    /\ tpc = "done" /\ onProgress /\ SessionComplete /\ UploadsAllAnsweredOk
    /\ Len(filePaths) >= 2
    /\ Len(UploadRequests) = Len(filePaths)
    /\ Len(progress) = Len(filePaths) + 1

\* The first file the session holds no token for is file k.
FirstMissingToken(k) ==
    /\ k \in 1..Len(fileInfos)
    /\ ~Truthy(session.files[k])
    /\ \A i \in 1..(k - 1) : Truthy(session.files[i])

MissingTokenError(k) == Err("No token for file: ", -1, <<BaseName(filePaths[k])>>)

\* C2 as stated: when the session lacks the token of file k and has those of
\* files 1..k-1, only files 1..k-1 get an upload request and the transfer
\* fails with "No token for file: <name of file k>".
C2_AsStated ==
    \A k \in 1..MaxFiles + 1 :
        (TransferEnded /\ SessionOpen /\ FirstMissingToken(k))
            => /\ \A i \in 1..Len(UploadIds) : UploadIds[i] < k
               /\ tpc = "failed"
               /\ terror = MissingTokenError(k)

\* C2, amended: no file from k on ever gets an upload request; and when the
\* uploads of files 1..k-1 have all succeeded (each file read and its request
\* answered 200 or 204), exactly those k-1 requests were sent and the
\* transfer fails with "No token for file: <name of file k>".
C2_MissingTokenStops ==
    \A k \in 1..MaxFiles + 1 :
        (SessionOpen /\ FirstMissingToken(k))
            => /\ \A i \in 1..Len(UploadIds) : UploadIds[i] < k
               /\ (/\ Len(UploadResponses) = k - 1
                   /\ \A j \in 1..(k - 1) : UploadResponses[j].statusCode \in {200, 204})
                    => /\ tpc = "failed"
                       /\ terror = MissingTokenError(k)
                       /\ UploadIds = [i \in 1..(k - 1) |-> i]

C2_Witness ==
    /\ SessionOpen /\ FirstMissingToken(2)
    /\ tpc = "failed" /\ terror = MissingTokenError(2)
    /\ UploadIds = <<1>>

\* The session prepareUpload returns for a 204: no sessionId, no token.
SentinelSession ==
    [json |-> "object", sessionId |-> "", hasFiles |-> TRUE,
     files |-> [i \in 1..Len(fileInfos) |-> NoValue]]

\* C3: when the prepare-upload response has status 204, negotiation returns
\* the sentinel session (empty sessionId, empty token map) and the transfer
\* ends without a single upload request, whatever the number of files.
C3_NoUploadAfter204 ==
    (responses # <<>> /\ responses[1].statusCode = 204)
        => /\ session = SentinelSession
           /\ UploadRequests = <<>>
           /\ requests = <<PrepareRequest>>
           /\ tpc = "done"

C3_Witness ==
    /\ responses # <<>> /\ responses[1].statusCode = 204
    /\ Len(filePaths) >= 2
    /\ tpc = "done"

\* The status table of the specification, section 4.4.
RejectionTable ==
    [c \in PrepareStatuses \ {200, 204} |->
        IF c = 400 THEN "Invalid request"
        ELSE IF c = 401 THEN "PIN required"
        ELSE IF c = 403 THEN "Request rejected by receiver"
        ELSE IF c = 409 THEN "Receiver is busy with another transfer"
        ELSE IF c = 429 THEN "Too many requests"
        ELSE IF c = 500 THEN "Receiver error"
        ELSE "Upload rejected"]

\* C4: for every prepare-upload status other than 200 and 204 the transfer
\* fails with the message the status table gives for it, and no upload
\* request is sent.
C4_RejectionMessage ==
    (responses # <<>> /\ responses[1].statusCode \in DOMAIN RejectionTable)
        => /\ tpc = "failed"
           /\ terror = Err(RejectionTable[responses[1].statusCode], -1, <<>>)
           /\ UploadRequests = <<>>

C4_Witness ==
    /\ responses # <<>> /\ responses[1].statusCode = 409
    /\ Len(filePaths) >= 1
    /\ terror.message = "Receiver is busy with another transfer"

\* C5: when the upload request of file k is answered with a status other
\* than 200 and 204, the transfer fails with an upload error carrying that
\* status and the response body, and no later file gets an upload request.
C5_UploadFailureStops ==
    \A k \in 1..Len(UploadResponses) :
        (UploadResponses[k].statusCode \notin {-1, 200, 204})
            => /\ tpc = "failed"
               /\ terror = Err("Upload failed with status ",
                               UploadResponses[k].statusCode,
                               <<UploadResponses[k].body>>)
               /\ UploadIds = [i \in 1..k |-> i]

C5_Witness ==
    /\ Len(filePaths) >= 2
    /\ Len(UploadResponses) = 1
    /\ UploadResponses[1].statusCode = 500
    /\ UploadResponses[1].body = "busy"
    /\ tpc = "failed"

\* The prepare-upload response had status 200 and a malformed body: text that
\* is no JSON (prepareUpload threw, no session), or JSON that is no session
\* with a sessionId and a token map.
MalformedNegotiation ==
    /\ responses # <<>> /\ responses[1].statusCode = 200
    /\ \/ session.json # "object"
       \/ session.sessionId = NoValue
       \/ ~session.hasFiles

\* C11 as stated: a 200 prepare-upload response with a malformed body makes
\* the transfer fail with an error; it never ends as a successful transfer.
C11_MalformedFails == MalformedNegotiation => tpc = "failed"

\* The catalog loop has not got past every path of the list: it is running,
\* or it ended at a path that was missing or unreadable.
CatalogIncomplete == Len(fileInfos) < Len(filePaths)

\* The errors of the catalog loop: existsSync is false, or statSync or the
\* read for the hash fails.
LocalIOErrors == {"File not found: ", "stat or read failed"}

\* C12: no request is sent before every path of the list is cataloged, and
\* when a path is missing or unreadable as it is cataloged, the transfer
\* fails with a local I/O error for that path with no request sent at all,
\* also when earlier paths were cataloged.
C12_CatalogFailureNoRequest ==
    /\ CatalogIncomplete => (requests = <<>> /\ responses = <<>>)
    /\ (TransferEnded /\ CatalogIncomplete)
        => /\ tpc = "failed"
           /\ terror.message \in LocalIOErrors
           /\ terror.arg = filePaths[Len(fileInfos) + 1]

C12_Witness ==
    /\ tpc = "failed"
    /\ Len(filePaths) = 2 /\ Len(fileInfos) = 1
    /\ terror = Err("stat or read failed", -1, filePaths[2])
    /\ requests = <<>>

\* The requests sent and not yet ended (answered, failed or timed out).
InFlight == Len(requests) - Len(responses)

\* C14: within one transfer at most one request is in flight at any time;
\* the prepare-upload response is received before the first upload request
\* is sent, and the upload request of a file is sent only after the response
\* for the previous file has been received.
C14_OneRequestInFlight ==
    /\ InFlight \in {0, 1}
    /\ InFlight = 1 <=> tpc \in {"prepare", "upload"}
    /\ UploadRequests # <<>>
        => /\ requests[1] = PrepareRequest
           /\ responses # <<>> /\ responses[1].statusCode = 200
    /\ \A j \in 2..Len(UploadRequests) :
         /\ Len(UploadResponses) >= j - 1
         /\ UploadResponses[j - 1].statusCode \in {200, 204}

C14_Witness ==
    /\ Len(filePaths) = 2
    /\ tpc = "upload"
    /\ Len(UploadRequests) = 2
    /\ Len(responses) = 2
    /\ InFlight = 1

\* C15: the transfer engine never issues a cancel request itself, on any
\* path (negotiation failure, missing token, upload failure included): every
\* request of a transfer is its prepare-upload request or an upload request,
\* and a transfer ends completed or failed, never cancelled.
C15_NeverCancelsItself ==
    /\ \A i \in DOMAIN requests :
         /\ requests[i] # CancelRequest
         /\ requests[i].path \in {"prepare-upload", "upload"}
    /\ tpc \in {"idle", "catalog", "prepare", "upload", "done", "failed"}

\* A transfer that failed in its second upload, after one file was sent.
C15_Witness ==
    /\ tpc = "failed"
    /\ SessionOpen
    /\ Len(UploadRequests) = 2
    /\ terror.message \in {"Upload failed with status ", "socket error"}
    /\ \A i \in DOMAIN requests : requests[i] # CancelRequest

\* The completion calls among the progress calls made so far.
CompletionCalls ==
    { k \in DOMAIN progress : progress[k].currentIndex = progress[k].totalCount }

\* The first k upload requests were answered 200 or 204.
UploadedOk(k) ==
    /\ Len(UploadResponses) >= k
    /\ \A j \in 1..k : UploadResponses[j].statusCode \in {200, 204}

\* C19: the completion call (currentIndex = totalCount) is made only after
\* every file of the list was uploaded with a 200 or 204 response, as the
\* last call; a failing transfer and a transfer cut short by an empty
\* sessionId never make it; and the k-th per-file call carries currentIndex
\* k - 1, the number of files uploaded by then.
C19_ProgressCounts ==
    /\ \A k \in CompletionCalls :
         /\ k = Len(progress) /\ k = Len(filePaths) + 1
         /\ tpc = "done"
         /\ UploadIds = [i \in 1..Len(filePaths) |-> i]
         /\ UploadedOk(Len(filePaths))
    /\ tpc = "failed" => CompletionCalls = {}
    /\ (tpc = "done" /\ ~Truthy(session.sessionId)) => progress = <<>>
    /\ \A k \in DOMAIN progress \ CompletionCalls :
         /\ progress[k].currentIndex = k - 1
         /\ progress[k].totalCount = Len(filePaths)
         /\ progress[k].fileName = BaseName(filePaths[k])
         /\ UploadedOk(k - 1)
         /\ Len(UploadResponses) = k - 1 => tpc \in {"upload", "failed"}

C19_Witness ==
    /\ onProgress /\ tpc = "done"
    /\ Len(filePaths) = 2
    /\ [k \in DOMAIN progress |-> progress[k].currentIndex] = <<0, 1, 2>>
    /\ CompletionCalls = {3}

(***************************************************************************)
(*                          THE DISCOVERY ENGINE                           *)
(***************************************************************************)

\* const DEFAULT_PORT
DEFAULT_PORT == 53317

\* The last host suffix scanNetwork probes in a subnet: for (i = 1; i <= 254).
LastHostOctet == 254

\* The last host suffix of the subnets of the probe-by-probe model, which
\* follows every probe of a small subnet.
ScanLastHost == 3

\* The most probes of one scan that get an HTTP response; the others end in
\* a connection error, a timeout, or never.
MaxAnswers == 2

\* No transfer is running and none will: the transfer engine is left alone.
TransferIdle ==
    /\ filePaths = <<>> /\ onProgress = FALSE /\ tpc = "off" /\ fileInfos = <<>>
    /\ session = NoSession /\ cur = 0 /\ completed = 0 /\ requests = <<>>
    /\ responses = <<>> /\ progress = <<>> /\ terror = NoError

\* Addresses are sequences of numbers: four octets for IPv4.
Loopback4 == [address |-> <<127, 0, 0, 1>>, family |-> "IPv4", internal |-> TRUE]
Loopback6 == [address |-> <<0, 0, 0, 0, 0, 0, 0, 1>>, family |-> "IPv6", internal |-> TRUE]
Lan4(host) == [address |-> <<192, 168, 1, host>>, family |-> "IPv4", internal |-> FALSE]
Lan6(host) == [address |-> <<65152, 0, 0, 0, 0, 0, 0, host>>, family |-> "IPv6", internal |-> FALSE]
Other4(host) == [address |-> <<10, 0, 0, host>>, family |-> "IPv4", internal |-> FALSE]

\* os.networkInterfaces() of the hosts of the probe-by-probe model: one with
\* the loopback interface only, one whose only outside address is IPv6, one
\* with an address in the scanned subnet.
InterfaceConfigs ==
    { <<Loopback4, Loopback6>>,
      <<Loopback4, Lan6(2)>>,
      <<Loopback4, Lan4(2), Lan6(2)>> }

\* A getLocalIPs that keeps the internal addresses: C16 must fail for it.
GetLocalIPsInternalToo(ifs) ==
    LET keep == SelectSeq(ifs, LAMBDA info : info.family = "IPv4")
    IN [i \in 1..Len(keep) |-> keep[i].address]

\* getLocalIPs(): the non-internal IPv4 addresses, in the interfaces' order.
GetLocalIPs(ifs) ==
    LET keep == SelectSeq(ifs, LAMBDA info : info.family = "IPv4" /\ ~info.internal)
    IN [i \in 1..Len(keep) |-> keep[i].address]

\* The protocols scanNetwork tries for every address, in its order.
Protocols == <<"https", "http">>

\* localIP.split(".").slice(0, 3).join(".")
Subnet(ip) == SubSeq(ip, 1, 3)

\* The inner loops without the test for a local address: C17 must fail for
\* them.
SubnetTargetsNoSkip(subnet, last, localIPs) ==
    LET np == Len(Protocols)
    IN [j \in 1..(last * np) |->
           [ip |-> Append(subnet, ((j - 1) \div np) + 1),
            protocol |-> Protocols[((j - 1) % np) + 1]]]

\* scanNetwork's inner loops for one subnet: for every host suffix 1..last
\* that is no local address, one probe target per protocol, in the order
\* the probes are launched.
SubnetTargets(subnet, last, localIPs) ==
    LET hosts == SelectSeq([i \in 1..last |-> i],
                           LAMBDA i : Append(subnet, i) \notin Range(localIPs))
        np == Len(Protocols)
    IN [j \in 1..(Len(hosts) * np) |->
           [ip |-> Append(subnet, hosts[((j - 1) \div np) + 1]),
            protocol |-> Protocols[((j - 1) % np) + 1]]]

\* scanNetwork's outer loop from the k-th local address on.
RECURSIVE ScanTargetsFrom(_, _, _)
ScanTargetsFrom(k, last, localIPs) ==
    IF k > Len(localIPs) THEN <<>>
    ELSE SubnetTargets(Subnet(localIPs[k]), last, localIPs)
            \o ScanTargetsFrom(k + 1, last, localIPs)

\* Every probe scanNetwork launches, for host suffixes 1..last.
ScanTargets(localIPs, last) == ScanTargetsFrom(1, last, localIPs)

\* An absent port property (undefined), among port numbers.
NoPort == -1

\* JavaScript truthiness of a number-or-undefined value.
TruthyNumber(n) == n # NoPort /\ n # 0

\* The body of a register response, as JSON.parse sees it: text that is no
\* JSON, a JSON value that is no object, or an object whose properties may be
\* absent (NoValue, NoPort and ip <<>> stand for an absent property) or
\* present with a falsy value (protocol "", port 0).
BodyOf(json, alias, protocol, port, ip) ==
    [json |-> json, alias |-> alias, protocol |-> protocol, port |-> port, ip |-> ip]
NoBody == BodyOf("none", NoValue, NoValue, NoPort, <<>>)
ProbeBodies ==
    { BodyOf("garbage", NoValue, NoValue, NoPort, <<>>),
      BodyOf("null", NoValue, NoValue, NoPort, <<>>),
      BodyOf("number", NoValue, NoValue, NoPort, <<>>),
      BodyOf("object", "peer", NoValue, NoPort, <<>>),
      BodyOf("object", "peer", "", 0, <<>>),
      BodyOf("object", "peer", "http", 8080, <<10, 9, 9, 9>>) }

\* How a probe's request ends: with an error, a timeout, or a response.
ProbeOutcomes ==
    { [kind |-> "error", body |-> NoBody], [kind |-> "timeout", body |-> NoBody] }
    \cup { [kind |-> "response", body |-> b] : b \in ProbeBodies }
Pending == [kind |-> "pending", body |-> NoBody]

\* A LocalSendDevice, and the null registerWithDevice resolves with instead.
Device(alias, protocol, port, ip) ==
    [alias |-> alias, protocol |-> protocol, port |-> port, ip |-> ip]
Resolve(device) == [rejects |-> FALSE, isNull |-> FALSE, device |-> device]
ResolveNull == [rejects |-> FALSE, isNull |-> TRUE, device |-> Device(NoValue, NoValue, NoPort, <<>>)]
Reject == [rejects |-> TRUE, isNull |-> TRUE, device |-> Device(NoValue, NoValue, NoPort, <<>>)]

\* A registerWithDevice that rejects on a connection error or a timeout
\* instead of resolving with null: C9 must fail for it.
RegisterWithDeviceRejecting(ip, port, protocol, outcome) ==
    IF outcome.kind \in {"error", "timeout"} THEN Reject
    ELSE IF outcome.body.json \in {"garbage", "null"} THEN ResolveNull
    ELSE Resolve(Device(outcome.body.alias,
                        IF Truthy(outcome.body.protocol) THEN outcome.body.protocol
                                                          ELSE "https",
                        IF TruthyNumber(outcome.body.port) THEN outcome.body.port
                        ELSE IF TruthyNumber(port) THEN port ELSE 53317,
                        ip))

\* A registerWithDevice that spreads the body last, so that the body's own
\* ip, protocol and port win: C13 must fail for it.
RegisterWithDeviceTrusting(ip, port, protocol, outcome) ==
    IF outcome.kind \in {"error", "timeout"} THEN ResolveNull
    ELSE IF outcome.body.json \in {"garbage", "null"} THEN ResolveNull
    ELSE Resolve(Device(outcome.body.alias,
                        IF outcome.body.protocol # NoValue THEN outcome.body.protocol
                                                           ELSE "https",
                        IF outcome.body.port # NoPort THEN outcome.body.port
                        ELSE IF TruthyNumber(port) THEN port ELSE 53317,
                        IF outcome.body.ip # <<>> THEN outcome.body.ip ELSE ip))

\* registerWithDevice: what its promise settles with for one way the request
\* ends. JSON.parse throws on text that is no JSON and `device.protocol`
\* throws on null; every other JSON value is spread into a device.
RegisterWithDevice(ip, port, protocol, outcome) ==
    IF outcome.kind \in {"error", "timeout"} THEN ResolveNull
    ELSE IF outcome.body.json \in {"garbage", "null"} THEN ResolveNull
    ELSE Resolve(Device(outcome.body.alias,
                        IF Truthy(outcome.body.protocol) THEN outcome.body.protocol
                                                          ELSE "https",
                        IF TruthyNumber(outcome.body.port) THEN outcome.body.port
                        ELSE IF TruthyNumber(port) THEN port ELSE 53317,
                        ip))

\* What the promise of probe p, once its request has ended, settled with.
Settled(p) == RegisterWithDevice(p.ip, DEFAULT_PORT, p.protocol, p.outcome)

\* Promise.all(promises) has resolved: every probe's promise is fulfilled.
AllFulfilled(ps) == \A i \in DOMAIN ps : ps[i].outcome # Pending /\ ~Settled(ps[i]).rejects

\* Promise.all(promises) has rejected.
SomeRejected(ps) == \E i \in DOMAIN ps : ps[i].outcome # Pending /\ Settled(ps[i]).rejects

\* A race that Promise.all never wins by fulfilling.
RaceAfterSettleNever(pc, ps) == IF SomeRejected(ps) /\ pc = "scanning" THEN "threw" ELSE pc

\* Where scanNetwork is after a probe's promise has settled: the race ends
\* when Promise.all does, and scanNetwork returns or throws with it.
RaceAfterSettle(pc, ps) ==
    IF pc # "scanning" THEN pc
    ELSE IF SomeRejected(ps) THEN "threw"
    ELSE IF AllFulfilled(ps) THEN "returned"
    ELSE pc

\* A race that the deadline never wins: C7 must fail for it.
RaceAfterDeadlineNever(pc) == pc

\* Where scanNetwork is after the deadline's timer has fired.
RaceAfterDeadline(pc) == IF pc = "scanning" THEN "returned" ELSE pc

InitDiscovery ==
    /\ TransferIdle /\ CountIdle /\ OverlapIdle /\ ActionIdle /\ DiscoveryActionIdle
    /\ interfaces \in InterfaceConfigs
    /\ dpc = "idle"
    /\ promises = <<>>
    /\ devices = <<>>
    /\ timerFired = FALSE

\* scanNetwork is called and awaits api.Log.
ScanNetwork ==
    /\ dpc = "idle"
    /\ dpc' = "log"
    /\ UNCHANGED <<interfaces, promises, devices, timerFired>>
    /\ UNCHANGED <<tvars, cvars, svars, avars, gvars>>

\* api.Log has resolved: scanNetwork launches every probe, starts the
\* deadline's timer and awaits the race; with no probe Promise.all([]) has
\* resolved already and scanNetwork returns.
LaunchProbes ==
    /\ dpc = "log"
    /\ LET targets == ScanTargets(GetLocalIPs(interfaces), ScanLastHost)
           ps == [i \in 1..Len(targets) |->
                     [ip |-> targets[i].ip, protocol |-> targets[i].protocol,
                      outcome |-> Pending]]
       IN /\ promises' = ps
          /\ dpc' = RaceAfterSettle("scanning", ps)
    /\ UNCHANGED <<interfaces, devices, timerFired>>
    /\ UNCHANGED <<tvars, cvars, svars, avars, gvars>>

\* The number of probes that got a response so far.
Answered(ps) == Cardinality({ i \in DOMAIN ps : ps[i].outcome.kind = "response" })

\* The request of probe i ends: its promise settles, the .then callback
\* pushes the device if there is one, and the race may end.
ProbeSettles ==
    /\ dpc \in {"scanning", "returned", "threw"}
    /\ \E i \in DOMAIN promises, outcome \in ProbeOutcomes :
         /\ promises[i].outcome = Pending
         /\ outcome.kind = "response" => Answered(promises) < MaxAnswers
         /\ LET ps == [promises EXCEPT ![i].outcome = outcome]
                r == Settled(ps[i])
            IN /\ promises' = ps
               /\ devices' = IF ~r.rejects /\ ~r.isNull
                             THEN Append(devices, r.device)
                             ELSE devices
               /\ dpc' = RaceAfterSettle(dpc, ps)
    /\ UNCHANGED <<interfaces, timerFired>>
    /\ UNCHANGED <<tvars, cvars, svars, avars, gvars>>

\* The deadline's timer fires: the race ends, if it has not yet.
DeadlineFires ==
    /\ dpc \in {"scanning", "returned", "threw"}
    /\ ~timerFired
    /\ timerFired' = TRUE
    /\ dpc' = RaceAfterDeadline(dpc)
    /\ UNCHANGED <<interfaces, promises, devices>>
    /\ UNCHANGED <<tvars, cvars, svars, avars, gvars>>

NextDiscovery ==
    \/ ScanNetwork
    \/ LaunchProbes
    \/ ProbeSettles
    \/ DeadlineFires

\* The event loop runs a timer that has expired, and the host's api.Log
\* answers; a probe's request may never end.
SpecDiscovery ==
    /\ InitDiscovery
    /\ [][NextDiscovery]_vars
    /\ WF_vars(LaunchProbes)
    /\ WF_vars(DeadlineFires)

(***************************************************************************)
(*                    CLAIMS ABOUT THE DISCOVERY ENGINE                    *)
(***************************************************************************)

\* The probes whose request has ended.
SettledProbes == { i \in DOMAIN promises : promises[i].outcome # Pending }

\* The probes that failed: connection error, timeout, unparseable body.
FailedProbes ==
    { i \in SettledProbes :
        \/ promises[i].outcome.kind \in {"error", "timeout"}
        \/ promises[i].outcome.body.json = "garbage" }

\* The probes whose response body parsed as a JSON object.
ObjectProbes == { i \in SettledProbes : promises[i].outcome.body.json = "object" }

\* The race of scanNetwork's line 152 is decided.
RaceResolved == AllFulfilled(promises) \/ timerFired

\* Every device of the list was pushed by a probe that has settled without
\* failing, and no such probe pushed twice.
FromSettledProbes ==
    /\ Len(devices) <= Cardinality(SettledProbes \ FailedProbes)
    /\ \A k \in DOMAIN devices :
         \E i \in SettledProbes \ FailedProbes : devices[k].ip = promises[i].ip

\* C6 as stated: the list scanNetwork returns holds only devices of probes
\* that settled before the race resolved, and once scanNetwork has returned
\* no probe that settles later adds a device to the list the caller received.
C6_LateResultsDiscarded ==
    [][ /\ (dpc # "returned" /\ dpc' = "returned") => FromSettledProbes'
        /\ (dpc = "returned") => (devices' = devices) ]_vars

\* C7: scanNetwork returns exactly when the race is decided (every probe
\* settled, or the deadline elapsed), never before; once it runs it always
\* returns, also when probes never settle; and when all probes settle before
\* the deadline the list holds the device of every probe that answered with
\* a JSON object.
C7_ReturnsWhenRaceDecided ==
    /\ [](dpc \in {"scanning", "returned"} => (dpc = "returned" <=> RaceResolved))
    /\ []((dpc = "returned" /\ AllFulfilled(promises) /\ ~timerFired)
            => /\ Len(devices) >= Cardinality(ObjectProbes)
               /\ \A i \in ObjectProbes :
                    \E k \in DOMAIN devices :
                        /\ devices[k].ip = promises[i].ip
                        /\ devices[k].alias = promises[i].outcome.body.alias)
    /\ (dpc = "log") ~> (dpc = "returned")

C7_Witness ==
    /\ dpc = "returned" /\ timerFired
    /\ \E i \in DOMAIN promises : promises[i].outcome = Pending
    /\ Len(devices) >= 1

\* C9: scanNetwork never throws, whatever way the probes end; a probe that
\* fails (connection error, timeout, unparseable body) adds nothing to the
\* list, and when every probe that has settled failed the list is empty.
C9_NeverRaises ==
    /\ dpc # "threw"
    /\ FromSettledProbes
    /\ (SettledProbes \subseteq FailedProbes) => (devices = <<>>)

C9_Witness ==
    /\ dpc = "returned"
    /\ \E i \in SettledProbes : promises[i].outcome.kind = "error"
    /\ \E i \in SettledProbes : promises[i].outcome.kind = "timeout"
    /\ \E i \in SettledProbes : promises[i].outcome.body.json = "garbage"
    /\ Len(devices) = 1

\* C10 as stated: a probe yields a device only if its response body parses
\* as a JSON object; every other body (unparseable, null, a number, ...)
\* yields nothing.
C10_DeviceOnlyFromObject ==
    /\ Len(devices) <= Cardinality(ObjectProbes)
    /\ \A k \in DOMAIN devices :
         \E i \in ObjectProbes : devices[k].ip = promises[i].ip

\* Probe i settles in this step and its .then callback pushes a device.
Yields(i) ==
    /\ promises[i].outcome = Pending
    /\ promises'[i].outcome # Pending
    /\ Len(devices') = Len(devices) + 1

\* The device pushed in this step.
Yielded == devices'[Len(devices')]

\* C13 as stated: every device yielded by a probe has the address the probe
\* targeted, whatever ip the body holds; its protocol and port are those of
\* the response, or "https" and 53317 when the response omits them.
C13_AsStated ==
    [][ \A i \in DOMAIN promises :
          Yields(i) =>
            LET b == promises'[i].outcome.body
            IN /\ Yielded.ip = promises[i].ip
               /\ Yielded.protocol = (IF b.protocol = NoValue THEN "https"
                                                              ELSE b.protocol)
               /\ Yielded.port = (IF b.port = NoPort THEN 53317 ELSE b.port) ]_vars

\* C13, amended: the same, with "https" and 53317 also taken when the
\* response gives a falsy protocol or port (the empty string, 0).
C13_TargetAddressAndDefaults ==
    [][ \A i \in DOMAIN promises :
          Yields(i) =>
            LET b == promises'[i].outcome.body
            IN /\ Yielded.ip = promises[i].ip
               /\ Yielded.protocol = (IF b.protocol \in {NoValue, ""} THEN "https"
                                                                      ELSE b.protocol)
               /\ Yielded.port = (IF b.port \in {NoPort, 0} THEN 53317 ELSE b.port) ]_vars

\* Two devices were yielded: one from a body with its own ip, protocol and
\* port, one from a body with a falsy protocol and port.
C13_Witness ==
    /\ \E k \in DOMAIN devices, i \in SettledProbes :
         /\ promises[i].outcome.body.ip = <<10, 9, 9, 9>>
         /\ devices[k].ip = promises[i].ip
         /\ devices[k].ip # <<10, 9, 9, 9>>
         /\ devices[k].protocol = "http" /\ devices[k].port = 8080
    /\ \E k \in DOMAIN devices, i \in SettledProbes :
         /\ promises[i].outcome.body.port = 0
         /\ devices[k].ip = promises[i].ip
         /\ devices[k].protocol = "https" /\ devices[k].port = DEFAULT_PORT

\* The host has no non-internal IPv4 address.
NoOutsideIPv4 ==
    \A i \in DOMAIN interfaces :
        interfaces[i].family # "IPv4" \/ interfaces[i].internal

\* C16: on a host with no non-internal IPv4 address, discovery launches no
\* probe, never throws, and returns the empty list before the deadline has
\* elapsed.
C16_NoAddressReturnsAtOnce ==
    /\ [](NoOutsideIPv4 => (promises = <<>> /\ devices = <<>>
                             /\ dpc \notin {"scanning", "threw"}))
    /\ [][ (NoOutsideIPv4 /\ dpc # "returned" /\ dpc' = "returned")
             => ~timerFired' ]_vars
    /\ (NoOutsideIPv4 /\ dpc = "log")
         ~> (dpc = "returned" /\ ~timerFired /\ devices = <<>>)

C16_Witness ==
    /\ NoOutsideIPv4
    /\ \E i \in DOMAIN interfaces : ~interfaces[i].internal
    /\ dpc = "returned" /\ ~timerFired
    /\ promises = <<>> /\ devices = <<>>

(***************************************************************************)
(*                   THE SCAN, COUNTED PROBE BY PROBE                      *)
(* The same scanNetwork with its probes counted instead of told apart, so  *)
(* that whole subnets (host suffixes 1..254) can be followed: only the     *)
(* number of probes launched, the number still pending and the length of   *)
(* the array of devices are kept, up to the return.                        *)
(***************************************************************************)

\* getLocalIPs() of the counted scan: no address, one address, two addresses
\* of one subnet, two addresses of two subnets.
HostIPConfigs ==
    { <<>>,
      <<Lan4(1).address>>,
      <<Lan4(1).address, Lan4(2).address>>,
      <<Lan4(1).address, Other4(1).address>> }

InitCount ==
    /\ TransferIdle /\ DiscoveryIdle /\ OverlapIdle /\ ActionIdle /\ DiscoveryActionIdle
    /\ hostIPs \in HostIPConfigs
    /\ cpc = "idle"
    /\ launched = 0
    /\ pending = 0
    /\ found = 0

\* scanNetwork launches its probes and awaits the race; with no probe it
\* returns.
CountLaunch ==
    /\ cpc = "idle"
    /\ launched' = Len(ScanTargets(hostIPs, LastHostOctet))
    /\ pending' = launched'
    /\ cpc' = IF launched' = 0 THEN "returned" ELSE "scanning"
    /\ UNCHANGED <<hostIPs, found>>
    /\ UNCHANGED <<tvars, dvars, svars, avars, gvars>>

\* A probe resolves with a device, which is pushed.
CountProbeYields ==
    /\ cpc = "scanning"
    /\ pending > 0
    /\ pending' = pending - 1
    /\ found' = found + 1
    /\ cpc' = IF pending' = 0 THEN "returned" ELSE cpc
    /\ UNCHANGED <<hostIPs, launched>>
    /\ UNCHANGED <<tvars, dvars, svars, avars, gvars>>

\* A probe resolves with null.
CountProbeFails ==
    /\ cpc = "scanning"
    /\ pending > 0
    /\ pending' = pending - 1
    /\ cpc' = IF pending' = 0 THEN "returned" ELSE cpc
    /\ UNCHANGED <<hostIPs, launched, found>>
    /\ UNCHANGED <<tvars, dvars, svars, avars, gvars>>

\* The deadline elapses first.
CountDeadline ==
    /\ cpc = "scanning"
    /\ cpc' = "returned"
    /\ UNCHANGED <<hostIPs, launched, pending, found>>
    /\ UNCHANGED <<tvars, dvars, svars, avars, gvars>>

NextCount ==
    \/ CountLaunch
    \/ CountProbeYields
    \/ CountProbeFails
    \/ CountDeadline

SpecCount == InitCount /\ [][NextCount]_vars

\* The local subnets: the distinct three-octet prefixes of the local addresses.
LocalSubnets == { Subnet(hostIPs[i]) : i \in DOMAIN hostIPs }

\* C8 as stated: the list scanNetwork returns is never longer than
\* (number of local subnets) x 254 x 2.
C8_LengthBound ==
    (cpc = "returned") => (found <= Cardinality(LocalSubnets) * 254 * 2)

\* The probes of the counted scan have just been launched.
JustLaunched == cpc # "idle" /\ pending = launched /\ found = 0

\* C17: no probe goes to an address of the local self-set, also with several
\* local addresses in one subnet or in different subnets; every other
\* address prefix.1 to prefix.254 of each local subnet is probed with both
\* "https" and "http", on port 53317, and nothing else is probed.
C17_SelfSkippedOthersProbed ==
    JustLaunched =>
        LET targets == ScanTargets(hostIPs, LastHostOctet)
            local == Range(hostIPs)
            probed == Range(targets)
        IN /\ launched = Len(targets)
           /\ DEFAULT_PORT = 53317
           /\ \A t \in probed : t.ip \notin local
           /\ \A ip \in local : \A i \in 1..254 :
                LET a == <<ip[1], ip[2], ip[3], i>>
                IN a \notin local
                    => /\ [ip |-> a, protocol |-> "https"] \in probed
                       /\ [ip |-> a, protocol |-> "http"] \in probed
           /\ \A t \in probed :
                /\ \E ip \in local : Subnet(t.ip) = Subnet(ip)
                /\ t.ip[4] \in 1..254
                /\ t.protocol \in {"https", "http"}

C17_Witness ==
    /\ JustLaunched /\ cpc = "scanning"
    /\ Len(hostIPs) = 2
    /\ Subnet(hostIPs[1]) = Subnet(hostIPs[2])
    /\ launched = 2 * 252 * 2

(***************************************************************************)
(*                      TWO SCANS THAT OVERLAP IN TIME                     *)
(* The plugin starts a scan for every query and for every retry, without   *)
(* waiting for an earlier one: two calls of scanNetwork run at once, each  *)
(* with the promises, the array of devices and the timer of its own call.  *)
(***************************************************************************)

\* The two calls.
Invocations == {1, 2}

\* The last host suffix of the subnet the two calls scan.
OverlapLastHost == 2

\* os.networkInterfaces() of the host of the two calls.
OverlapInterfaces == <<Loopback4, Lan4(1)>>

\* How a probe of the two calls ends: a connection error or a response that
\* describes a peer.
OverlapOutcomes ==
    { [kind |-> "error", body |-> NoBody],
      [kind |-> "response",
       body |-> BodyOf("object", "peer", "http", 8080, <<10, 9, 9, 9>>)] }

\* A call of scanNetwork that has not run yet.
NewScan == [pc |-> "idle", promises |-> <<>>, devices |-> <<>>, timerFired |-> FALSE]

InitOverlap ==
    /\ TransferIdle /\ DiscoveryIdle /\ CountIdle /\ ActionIdle /\ DiscoveryActionIdle
    /\ scans = [s \in Invocations |-> NewScan]

\* A scan whose callbacks push into the array of the first call, as with an
\* array kept at module level: C18 must fail for it.
PushTargetShared(s) == 1

\* The array the .then callback of a probe of call s pushes into: the
\* `devices` of the call that created the callback.
PushTarget(s) == s

\* Call s of scanNetwork starts and awaits api.Log.
OverlapScanNetwork(s) ==
    /\ scans[s].pc = "idle"
    /\ scans' = [scans EXCEPT ![s].pc = "log"]
    /\ UNCHANGED <<tvars, dvars, cvars, avars, gvars>>

\* api.Log has resolved for call s: it launches its probes and awaits its
\* race.
OverlapLaunchProbes(s) ==
    /\ scans[s].pc = "log"
    /\ LET targets == ScanTargets(GetLocalIPs(OverlapInterfaces), OverlapLastHost)
           ps == [i \in 1..Len(targets) |->
                     [ip |-> targets[i].ip, protocol |-> targets[i].protocol,
                      outcome |-> Pending]]
       IN scans' = [scans EXCEPT ![s].promises = ps,
                                 ![s].pc = RaceAfterSettle("scanning", ps)]
    /\ UNCHANGED <<tvars, dvars, cvars, avars, gvars>>

\* The request of probe i of call s ends in one of the given ways: its
\* promise settles, its callback pushes the device, and the race of call s
\* may end. Each entry of an array keeps, next to the device, the probe whose
\* callback pushed it.
ScanProbeSettles(s, outcomes) ==
    /\ scans[s].pc \in {"scanning", "returned", "threw"}
    /\ \E i \in DOMAIN scans[s].promises, outcome \in outcomes :
         /\ scans[s].promises[i].outcome = Pending
         /\ LET ps == [scans[s].promises EXCEPT ![i].outcome = outcome]
                r == Settled(ps[i])
                settled == [scans EXCEPT ![s].promises = ps,
                                         ![s].pc = RaceAfterSettle(scans[s].pc, ps)]
                t == PushTarget(s)
            IN scans' = IF ~r.rejects /\ ~r.isNull
                        THEN [settled EXCEPT ![t].devices =
                                Append(settled[t].devices,
                                       [device |-> r.device, by |-> <<s, i>>])]
                        ELSE settled
    /\ UNCHANGED <<tvars, dvars, cvars, avars, gvars>>

OverlapProbeSettles(s) == ScanProbeSettles(s, OverlapOutcomes)

\* The deadline's timer of call s fires.
OverlapDeadlineFires(s) ==
    /\ scans[s].pc \in {"scanning", "returned", "threw"}
    /\ ~scans[s].timerFired
    /\ scans' = [scans EXCEPT ![s].timerFired = TRUE,
                              ![s].pc = RaceAfterDeadline(scans[s].pc)]
    /\ UNCHANGED <<tvars, dvars, cvars, avars, gvars>>

NextOverlap ==
    \E s \in Invocations :
        \/ OverlapScanNetwork(s)
        \/ OverlapLaunchProbes(s)
        \/ OverlapProbeSettles(s)
        \/ OverlapDeadlineFires(s)

SpecOverlap == InitOverlap /\ [][NextOverlap]_vars

\* The probes of call s that have yielded a device.
YieldedBy(s) ==
    { i \in DOMAIN scans[s].promises :
        /\ scans[s].promises[i].outcome # Pending
        /\ ~Settled(scans[s].promises[i]).isNull }

\* C18: two calls that overlap share no state: under every interleaving of
\* their probe completions and deadlines, the list of each call holds only
\* devices yielded by its own probes, one for each of its probes that has
\* yielded, and the timer of one call does not end the other.
C18_OwnDevicesOnly ==
    \A s \in Invocations :
        /\ \A k \in DOMAIN scans[s].devices :
             /\ scans[s].devices[k].by[1] = s
             /\ scans[s].devices[k].by[2] \in YieldedBy(s)
             /\ scans[s].devices[k].device.ip
                    = scans[s].promises[scans[s].devices[k].by[2]].ip
        /\ Len(scans[s].devices) = Cardinality(YieldedBy(s))
        /\ scans[s].pc = "returned"
            => (scans[s].timerFired \/ AllFulfilled(scans[s].promises))

\* Both calls are awaiting their races, each with a device in its list and
\* a probe outstanding, and two probes of the same target have yielded.
C18_Witness ==
    /\ \A s \in Invocations :
         /\ scans[s].pc = "scanning"
         /\ Len(scans[s].devices) = 1
         /\ \E i \in DOMAIN scans[s].promises : scans[s].promises[i].outcome = Pending
    /\ scans[1].devices[1].device = scans[2].devices[1].device

(***************************************************************************)
(*                             THE SEND ACTION                             *)
(* createSendAction's action: it shows "preparing", calls sendFiles with a *)
(* progress callback and an error callback, and reports the outcome. The   *)
(* updates of the result that the progress callback starts are not awaited *)
(* by sendFiles: each ends at a time of its own.                           *)
(***************************************************************************)

\* The result as updateResultWithDevices left it: a device, offering "send".
DeviceResult ==
    [title |-> "send_to", subTitle |-> "device", actions |-> {"i18n:send"}]

\* The actions the error callback gives the result.
RetryActions == {"i18n:retry_send", "i18n:refresh_devices"}

InitSend ==
    /\ DiscoveryIdle /\ CountIdle /\ OverlapIdle /\ DiscoveryActionIdle
    /\ filePaths \in SeqsUpTo(Paths, MaxFiles) \ {<<>>}
    /\ onProgress = TRUE
    /\ tpc = "off"
    /\ fileInfos = <<>>
    /\ session = NoSession
    /\ cur = 0
    /\ completed = 0
    /\ requests = <<>>
    /\ responses = <<>>
    /\ progress = <<>>
    /\ terror = NoError
    /\ apc = "idle"
    /\ result = DeviceResult
    /\ shown = {}
    /\ errorCalls = 0

\* updateProgress from GetUpdatableResult on: the result gets the title of
\* the progress step, when the host still has the result.
ShowProgress(idx, total, fetched) ==
    IF ~fetched THEN result
    ELSE [result EXCEPT !.title = IF idx < total THEN "sending" ELSE "sent_success",
                        !.subTitle = "target"]

\* The action is invoked: it logs and awaits updateProgress(0, n, preparing).
SendAction ==
    /\ apc = "idle"
    /\ apc' = "preparing"
    /\ UNCHANGED <<result, shown, errorCalls>>
    /\ UNCHANGED <<tvars, dvars, cvars, svars, gvars>>

\* The first update has ended: the action calls sendFiles with the device,
\* the files and its two callbacks; sendFiles has three parameters and the
\* error callback, its fourth argument, is dropped.
CallSendFiles ==
    /\ apc = "preparing"
    /\ apc' = "sending"
    /\ \E fetched \in BOOLEAN : result' = ShowProgress(0, Len(filePaths), fetched)
    /\ tpc' = "idle"
    /\ UNCHANGED <<shown, errorCalls>>
    /\ UNCHANGED <<filePaths, onProgress, fileInfos, session, cur, completed,
                   requests, responses, progress, terror>>
    /\ UNCHANGED <<dvars, cvars, svars, gvars>>

\* The update started by one call of the progress callback ends.
UpdateProgress ==
    /\ \E k \in DOMAIN progress \ shown, fetched \in BOOLEAN :
         /\ shown' = shown \cup {k}
         /\ result' = ShowProgress(progress[k].currentIndex,
                                   progress[k].totalCount, fetched)
    /\ UNCHANGED <<apc, errorCalls>>
    /\ UNCHANGED <<tvars, dvars, cvars, svars, gvars>>

\* sendFiles has returned: the action notifies the success.
SendActionSucceeds ==
    /\ apc = "sending" /\ tpc = "done"
    /\ apc' = "succeeded"
    /\ UNCHANGED <<result, shown, errorCalls>>
    /\ UNCHANGED <<tvars, dvars, cvars, svars, gvars>>

\* sendFiles has thrown: the catch block notifies the failure and gives the
\* result the failed title and the message, leaving its actions alone.
SendActionCatches ==
    /\ apc = "sending" /\ tpc = "failed"
    /\ apc' = "failed"
    /\ \E fetched \in BOOLEAN :
         result' = IF fetched
                   THEN [result EXCEPT !.title = "i18n:failed_to_send",
                                       !.subTitle = terror.message]
                   ELSE result
    /\ UNCHANGED <<shown, errorCalls>>
    /\ UNCHANGED <<tvars, dvars, cvars, svars, gvars>>

NextSend ==
    \/ SendAction
    \/ CallSendFiles
    \/ NextTransfer
    \/ UpdateProgress
    \/ SendActionSucceeds
    \/ SendActionCatches

SpecSend == InitSend /\ [][NextSend]_vars

\* sendFiles failed by a rejected negotiation, a missing token or a failed
\* upload.
SendFailure ==
    /\ tpc = "failed"
    /\ \/ terror.message \in Range(RejectionTable)
       \/ terror.message = "No token for file: "
       \/ terror.message = "Upload failed with status "

\* C20 as stated: when a send action fails (negotiation rejected, missing
\* token or upload failure), the error callback it passed to sendFiles is
\* invoked, and the result is updated to the failed state offering the
\* "retry send" and "refresh devices" actions.
C20_ErrorCallbackInvoked ==
    (apc = "failed" /\ SendFailure)
        => /\ errorCalls > 0
           /\ result.title = "i18n:failed_to_send"
                => result.actions = RetryActions

(***************************************************************************)
(*                           THE DISCOVERY ACTION                          *)
(* createDiscoveryAction's action: it sets the result to "scanning", runs  *)
(* findDevices and shows the outcome with updateResultWithDevices or       *)
(* updateResultWithError. The scan is one call of scanNetwork, as above.   *)
(* GetTranslation is taken to answer; GetUpdatableResult may give nothing  *)
(* and api.Log of findDevices may fail.                                    *)
(***************************************************************************)

\* The call of scanNetwork the action makes.
TheScan == 1

\* A JSON number where a string is expected: a value that is truthy and has
\* no string methods.
NumberValue == "<number>"

\* How a probe of the action's scan ends: a connection error, a response
\* that describes a peer, or a response whose protocol property is a number.
DiscoveryOutcomes ==
    OverlapOutcomes
    \cup { [kind |-> "response",
            body |-> BodyOf("object", "peer", NumberValue, NoPort, <<>>)] }

\* The result before the action runs: as query returned it, or as an
\* earlier run of the action left it, offering "retry".
ScanningResult ==
    [title |-> "i18n:scanning", subTitle |-> "i18n:please_wait", actions |-> {}]
QueryResult == [title |-> "i18n:scanning", subTitle |-> "", actions |-> {}]
NoDevicesResult ==
    [title |-> "i18n:no_devices_found", subTitle |-> "i18n:check_localsend",
     actions |-> {"i18n:retry"}]
FailedResult ==
    [title |-> "i18n:discovery_failed", subTitle |-> "error",
     actions |-> {"i18n:retry"}]

InitDiscoveryAction ==
    /\ TransferIdle /\ DiscoveryIdle /\ CountIdle
    /\ scans = [s \in {TheScan} |-> [NewScan EXCEPT !.pc = "off"]]
    /\ apc = "off" /\ shown = {} /\ errorCalls = 0
    /\ result \in {QueryResult, NoDevicesResult}
    /\ gpc = "idle"
    /\ updatable = FALSE
    /\ firstDevice = NoDevice
    /\ lost = FALSE

\* The action is invoked: it logs and awaits updateResultToScanning.
DiscoveryAction ==
    /\ gpc = "idle"
    /\ gpc' = "toScanning"
    /\ UNCHANGED <<updatable, firstDevice, lost>>
    /\ UNCHANGED <<tvars, dvars, cvars, svars, avars>>

\* updateResultToScanning ends: the result is set to scanning when the host
\* gave it; then findDevices is called and awaits api.Log.
UpdateResultToScanning ==
    /\ gpc = "toScanning"
    /\ \E fetched \in BOOLEAN :
         /\ result' = IF fetched THEN ScanningResult ELSE result
         /\ lost' = (lost \/ ~fetched)
    /\ gpc' = "logging"
    /\ UNCHANGED <<updatable, firstDevice>>
    /\ UNCHANGED <<apc, shown, errorCalls>>
    /\ UNCHANGED <<tvars, dvars, cvars, svars>>

\* api.Log of findDevices answers, and findDevices calls scanNetwork; or it
\* fails, findDevices throws and the action's catch block runs.
FindDevices ==
    /\ gpc = "logging"
    /\ \/ /\ gpc' = "finding"
          /\ scans' = [scans EXCEPT ![TheScan].pc = "idle"]
       \/ /\ gpc' = "failing"
          /\ UNCHANGED scans
    /\ UNCHANGED <<updatable, firstDevice, lost>>
    /\ UNCHANGED <<tvars, dvars, cvars, avars>>

\* A probe of the action's scan ends.
DiscoveryProbeSettles == ScanProbeSettles(TheScan, DiscoveryOutcomes)

\* scanNetwork has returned and findDevices returns its array; the action
\* calls updateResultWithDevices, which awaits GetUpdatableResult.
FindDevicesReturns ==
    /\ gpc = "finding"
    /\ scans[TheScan].pc = "returned"
    /\ gpc' = "fetching"
    /\ UNCHANGED <<updatable, firstDevice, lost>>
    /\ UNCHANGED <<tvars, dvars, cvars, svars, avars>>

\* updateResultWithDevices from GetUpdatableResult on: with an empty array
\* the result becomes "no devices found"; otherwise the first device is
\* taken and devicesToResults awaited.
UpdateResultWithDevices ==
    /\ gpc = "fetching"
    /\ \E fetched \in BOOLEAN :
         IF scans[TheScan].devices = <<>>
         THEN /\ result' = IF fetched THEN NoDevicesResult ELSE result
              /\ lost' = (lost \/ ~fetched)
              /\ gpc' = "done"
              /\ UNCHANGED <<updatable, firstDevice>>
         ELSE /\ updatable' = fetched
              /\ firstDevice' = scans[TheScan].devices[1].device
              /\ gpc' = "translating"
              /\ UNCHANGED <<result, lost>>
    /\ UNCHANGED <<apc, shown, errorCalls>>
    /\ UNCHANGED <<tvars, dvars, cvars, svars>>

\* (device.protocol || "HTTPS").toUpperCase() throws unless the protocol is
\* a string.
ToUpperCaseThrows(d) == d.protocol \in {NoValue, NumberValue}

\* devicesToResults ends: it throws when the device's protocol is no string,
\* and the catch block of updateResultWithDevices only logs; otherwise the
\* result shows the device and offers "send".
DevicesToResults ==
    /\ gpc = "translating"
    /\ IF ToUpperCaseThrows(firstDevice)
       THEN UNCHANGED <<result, lost>>
       ELSE /\ result' = IF updatable
                         THEN [title |-> "send_to", subTitle |-> "device",
                               actions |-> {"i18n:send"}]
                         ELSE result
            /\ lost' = (lost \/ ~updatable)
    /\ gpc' = "done"
    /\ UNCHANGED <<updatable, firstDevice>>
    /\ UNCHANGED <<apc, shown, errorCalls>>
    /\ UNCHANGED <<tvars, dvars, cvars, svars>>

\* updateResultWithError: the result becomes "discovery failed", offering
\* "retry", when the host gave it.
UpdateResultWithError ==
    /\ gpc = "failing"
    /\ \E fetched \in BOOLEAN :
         /\ result' = IF fetched THEN FailedResult ELSE result
         /\ lost' = (lost \/ ~fetched)
    /\ gpc' = "done"
    /\ UNCHANGED <<updatable, firstDevice>>
    /\ UNCHANGED <<apc, shown, errorCalls>>
    /\ UNCHANGED <<tvars, dvars, cvars, svars>>

NextDiscoveryAction ==
    \/ DiscoveryAction
    \/ UpdateResultToScanning
    \/ FindDevices
    \/ OverlapScanNetwork(TheScan)
    \/ OverlapLaunchProbes(TheScan)
    \/ DiscoveryProbeSettles
    \/ OverlapDeadlineFires(TheScan)
    \/ FindDevicesReturns
    \/ UpdateResultWithDevices
    \/ DevicesToResults
    \/ UpdateResultWithError

SpecDiscoveryAction == InitDiscoveryAction /\ [][NextDiscoveryAction]_vars

\* The result shows exactly one outcome of a discovery: a device with a
\* send action, no devices found with a retry action, or discovery failed
\* with a retry action.
ShowsOutcome ==
    \/ result.title = "send_to" /\ result.actions = {"i18n:send"}
    \/ result.title = "i18n:no_devices_found" /\ result.actions = {"i18n:retry"}
    \/ result.title = "i18n:discovery_failed" /\ result.actions = {"i18n:retry"}

\* C21 as stated: a discovery action never leaves the result in the scanning
\* state: when the host gave the result at every update, the action does not
\* end before the result shows a device with a send action, no devices found
\* with a retry action, or discovery failed with a retry action.
C21_NeverLeftScanning ==
    (gpc = "done" /\ ~lost) => (result.title # "i18n:scanning" /\ ShowsOutcome)

=============================================================================
